---- MODULE Spec2Model ----
(***************************************************************************)
(* Producer and consumer of 0-Pre-requisites/3-RabbitMQ.ipynb against one  *)
(* RabbitMQ broker: get_connection, send_message, receive_message, the     *)
(* send.py script, and the docker cells that start and stop the broker.    *)
(* The broker and the pika client are modelled by what the calls of the    *)
(* notebook make them do: queue_declare, basic_publish through the default *)
(* exchange, basic_consume with auto_ack=True, start_consuming, close.     *)
(***************************************************************************)
EXTENDS Integers, Sequences, FiniteSets, TLC

(* ------------------------------ bounds --------------------------------- *)
\* total number of outside events in a run: calls of send_message, calls of
\* receive_message, executions of "docker stop / docker rm" and network drops
\* of single connections
MaxEvents == 4

(* ------------------------------ payloads ------------------------------- *)
\* A Python str is a sequence of code points, a Python bytes a sequence of
\* octets; the two never compare equal in Python, whatever they hold.
Str(cps) == [kind |-> "str", data |-> cps]
Bytes(bs) == [kind |-> "bytes", data |-> bs]

\* Arguments handed to send_message: the empty str, a str of ASCII only
\* ("Hi"), a str with a non-ASCII code point and an embedded NUL, the empty
\* bytes, and bytes with an embedded NUL.
PayloadSeq ==
    << Str(<<72, 105>>), Str(<<233, 0>>), Bytes(<<0, 72>>), Str(<< >>), Bytes(<< >>) >>
Payloads == { PayloadSeq[i] : i \in DOMAIN PayloadSeq }

\* the argument of the k-th send_message call of a scripted run: the payloads
\* in turn, so that consecutive messages differ
PayloadAt(k) == PayloadSeq[((k - 1) % Len(PayloadSeq)) + 1]

\* UTF-8 encoding of one code point below 65536 (surrogates are not drawn)
Utf8(cp) ==
    IF cp < 128 THEN <<cp>>
    ELSE IF cp < 2048 THEN <<192 + (cp \div 64), 128 + (cp % 64)>>
    ELSE <<224 + (cp \div 4096), 128 + ((cp \div 64) % 64), 128 + (cp % 64)>>

RECURSIVE EncodeStr(_)
EncodeStr(cps) ==
    IF cps = << >> THEN << >> ELSE Utf8(Head(cps)) \o EncodeStr(Tail(cps))

\* faulty variant: the body is handed on as it was given
BodyOfIdentity(message) == message
\* basic_publish(body=message): pika encodes a str body as UTF-8 and sends a
\* bytes body as it is; the consumer callback always receives bytes.
BodyOf(message) ==
    IF message.kind = "str" THEN Bytes(EncodeStr(message.data)) ELSE message

(* ------------------------------ processes ------------------------------ *)
\* Two publishers: the notebook cell calling send_message and the terminal
\* running "python send.py". The subscriber is the notebook cell calling
\* receive_message. The notebook kernel runs one cell at a time, so the
\* notebook's send_message and receive_message never overlap; send.py is a
\* process of its own and overlaps with both.
Pubs == {"notebook", "send.py"}
ConnIds == 1 .. MaxEvents
NoConn == 0

VARIABLES
    brokerUp,    \* the rabbitmq-server container is running
    queues,      \* broker: queue name -> backlog (sequence of messages)
    consumers,   \* broker: connections with a consumer registered on 'hello'
    connState,   \* connection id -> "unused" | "open" | "closed" | "dropped"
    inflight,    \* connection id -> messages the broker pushed to it, not yet dispatched
    pc,          \* publisher -> position in send_message
    arg,         \* publisher -> the message argument of the running call
    callNo,      \* publisher -> which send_message call of the run this is (1, 2, ...)
    conn,        \* publisher -> connection returned by get_connection
    err,         \* publisher -> exception that ended the call, or "none"
    ops,         \* publisher -> operations executed by the current call, in order
    spc,         \* subscriber position in receive_message
    sconn,       \* subscriber's connection
    serr,        \* exception that ended receive_message, or "none"
    sops,        \* operations executed by the current receive_message call
    cur,         \* the message the callback is running on (<<>> when none)
    pubsAtStart, \* history: how many messages had been published when receive_message was called
    published,   \* history: messages the broker enqueued, in order, with the argument
    invoked,     \* history: messages passed to the callback, in order
    lost,        \* history: sequence numbers of the messages a stopped broker held
    closeCalls,  \* history: connection id -> number of connection.close() calls
    calls,       \* number of send_message and receive_message calls so far
    sends,       \* number of send_message calls so far
    faults       \* number of faults so far

vars == << brokerUp, queues, consumers, connState, inflight, pc, arg, callNo, conn,
           err, ops, spc, sconn, serr, sops, cur, pubsAtStart, published, invoked, lost,
           closeCalls, calls, sends, faults >>

brokerVars == << brokerUp, queues, consumers >>
pubVars == << pc, arg, callNo, conn, err, ops >>
subVars == << spc, sconn, serr, sops, cur, pubsAtStart >>
boundVars == << calls, sends, faults >>

NoQueues == [q \in {} |-> << >>]

Init ==
    /\ brokerUp = FALSE
    /\ queues = NoQueues
    /\ consumers = {}
    /\ connState = [c \in ConnIds |-> "unused"]
    /\ inflight = [c \in ConnIds |-> << >>]
    /\ pc = [p \in Pubs |-> "idle"]
    /\ arg = [p \in Pubs |-> Bytes(<< >>)]
    /\ callNo = [p \in Pubs |-> 0]
    /\ conn = [p \in Pubs |-> NoConn]
    /\ err = [p \in Pubs |-> "none"]
    /\ ops = [p \in Pubs |-> << >>]
    /\ spc = "idle"
    /\ sconn = NoConn
    /\ serr = "none"
    /\ sops = << >>
    /\ cur = << >>
    /\ pubsAtStart = 0
    /\ published = << >>
    /\ invoked = << >>
    /\ lost = {}
    /\ closeCalls = [c \in ConnIds |-> 0]
    /\ calls = 0 /\ sends = 0 /\ faults = 0


(* ------------------------------ helpers -------------------------------- *)
\* faulty variant: one connection, opened once and handed to every caller
SharedConnection == CHOOSE c \in ConnIds : \A d \in ConnIds : c <= d
\* pika.BlockingConnection(pika.ConnectionParameters('localhost')): every
\* call opens a new connection; ids are handed out in order.
FreshConnection ==
    CHOOSE c \in ConnIds :
        /\ connState[c] = "unused"
        /\ \A d \in ConnIds : d < c => connState[d] # "unused"

\* faulty variants: a declare that creates the queue anew every time; a
\* declare that creates nothing
QueueDeclareRecreate(qs, name) ==
    [q \in (DOMAIN qs) \cup {name} |-> IF q = name THEN << >> ELSE qs[q]]
QueueDeclareNothing(qs, name) == qs
\* channel.queue_declare(queue=name): creates the queue, empty, when the broker
\* has none of that name; otherwise leaves the broker as it is.
QueueDeclare(qs, name) ==
    IF name \in DOMAIN qs
    THEN qs
    ELSE [q \in (DOMAIN qs) \cup {name} |-> IF q = name THEN << >> ELSE qs[q]]

\* faulty variants: the message is enqueued twice; the message is enqueued at
\* the head of the backlog
RouteTwice(qs, key, m) ==
    IF key \in DOMAIN qs THEN [qs EXCEPT ![key] = Append(Append(@, m), m)] ELSE qs
RouteAtHead(qs, key, m) ==
    IF key \in DOMAIN qs THEN [qs EXCEPT ![key] = <<m>> \o @] ELSE qs
\* channel.basic_publish(exchange='', routing_key=key, body=...): the default
\* exchange routes to the queue named by the routing key, at the tail of its
\* backlog; without the mandatory flag an unroutable message is dropped.
Route(qs, key, m) ==
    IF key \in DOMAIN qs THEN [qs EXCEPT ![key] = Append(@, m)] ELSE qs

\* the kernel is free to run a cell: neither of its two functions is running
KernelFree ==
    /\ pc["notebook"] \in {"idle", "done", "failed"}
    /\ spc \in {"idle", "interrupted", "failed"}

IsOpen(c) == c # NoConn /\ connState[c] = "open"

Backlog(name) == IF name \in DOMAIN queues THEN queues[name] ELSE << >>

SeqsOf(s) == { s[i].seq : i \in 1 .. Len(s) }

(* ------------------------------ send_message --------------------------- *)
\* faulty variant: get_connection hands back a connection whether or not the
\* broker answered
SendCallIgnoreDown(p, message) ==
    /\ pc[p] \in {"idle", "done", "failed"}
    /\ p = "notebook" => KernelFree
    /\ calls + faults < MaxEvents
    /\ calls' = calls + 1
    /\ sends' = sends + 1
    /\ arg' = [arg EXCEPT ![p] = message]
    /\ callNo' = [callNo EXCEPT ![p] = sends + 1]
    /\ conn' = [conn EXCEPT ![p] = FreshConnection]
    /\ connState' = [connState EXCEPT ![FreshConnection] = "open"]
    /\ pc' = [pc EXCEPT ![p] = "queue_declare"]
    /\ err' = [err EXCEPT ![p] = "none"]
    /\ ops' = [ops EXCEPT ![p] = <<"get_connection", "channel">>]
    /\ UNCHANGED << brokerVars, inflight, subVars, published, invoked, lost,
                    closeCalls, faults >>

\* def send_message(message): connection = get_connection();
\* channel = connection.channel()
SendCall(p, message) ==
    /\ pc[p] \in {"idle", "done", "failed"}
    /\ p = "notebook" => KernelFree
    /\ calls + faults < MaxEvents
    /\ calls' = calls + 1
    /\ sends' = sends + 1
    /\ arg' = [arg EXCEPT ![p] = message]
    /\ callNo' = [callNo EXCEPT ![p] = sends + 1]
    /\ IF brokerUp
       THEN /\ conn' = [conn EXCEPT ![p] = FreshConnection]
            /\ connState' = [connState EXCEPT ![FreshConnection] = "open"]
            /\ pc' = [pc EXCEPT ![p] = "queue_declare"]
            /\ err' = [err EXCEPT ![p] = "none"]
            /\ ops' = [ops EXCEPT ![p] = <<"get_connection", "channel">>]
       ELSE /\ conn' = [conn EXCEPT ![p] = NoConn]
            /\ connState' = connState
            /\ pc' = [pc EXCEPT ![p] = "failed"]
            /\ err' = [err EXCEPT ![p] = "AMQPConnectionError"]
            /\ ops' = [ops EXCEPT ![p] = <<"get_connection">>]
    /\ UNCHANGED << brokerVars, inflight, subVars, published, invoked, lost,
                    closeCalls, faults >>

\* faulty variant: the failed operation is tried again instead of raising
SendRaiseRetry(p, op) ==
    /\ pc' = [pc EXCEPT ![p] = op]
    /\ err' = [err EXCEPT ![p] = "none"]
    /\ ops' = [ops EXCEPT ![p] = Append(@, op)]
\* an operation on a connection that is no longer open raises; send_message
\* has no except and no finally, so the exception ends the call
SendRaise(p, op) ==
    /\ pc' = [pc EXCEPT ![p] = "failed"]
    /\ err' = [err EXCEPT ![p] = "StreamLostError"]
    /\ ops' = [ops EXCEPT ![p] = Append(@, op)]

\* channel.queue_declare(queue='hello')
SendQueueDeclare(p) ==
    /\ pc[p] = "queue_declare"
    /\ IF IsOpen(conn[p])
       THEN /\ queues' = QueueDeclare(queues, "hello")
            /\ pc' = [pc EXCEPT ![p] = "basic_publish"]
            /\ ops' = [ops EXCEPT ![p] = Append(@, "queue_declare")]
            /\ err' = err
       ELSE /\ queues' = queues
            /\ SendRaise(p, "queue_declare")
    /\ UNCHANGED << brokerUp, consumers, connState, inflight, arg, callNo, conn, subVars,
                    published, invoked, lost, closeCalls, boundVars >>

\* channel.basic_publish(exchange='', routing_key='hello', body=message)
\* print(f" [x] Sent {message}")
SendBasicPublish(p) ==
    /\ pc[p] = "basic_publish"
    /\ IF IsOpen(conn[p])
       THEN LET m == [seq |-> Len(published) + 1, body |-> BodyOf(arg[p])]
            IN  /\ queues' = Route(queues, "hello", m)
                /\ published' =
                     IF "hello" \in DOMAIN queues
                     THEN Append(published, [seq |-> m.seq, arg |-> arg[p], by |-> p, call |-> callNo[p]])
                     ELSE published
                /\ pc' = [pc EXCEPT ![p] = "close"]
                /\ ops' = [ops EXCEPT ![p] = @ \o <<"basic_publish", "print">>]
                /\ err' = err
       ELSE /\ queues' = queues
            /\ published' = published
            /\ SendRaise(p, "basic_publish")
    /\ UNCHANGED << brokerUp, consumers, connState, inflight, arg, callNo, conn, subVars,
                    invoked, lost, closeCalls, boundVars >>

\* faulty variant: the queue goes away with the connection that declared it,
\* as an exclusive queue would
SendCloseExclusive(p) ==
    /\ pc[p] = "close"
    /\ closeCalls' = [closeCalls EXCEPT ![conn[p]] = @ + 1]
    /\ IF IsOpen(conn[p])
       THEN /\ connState' = [connState EXCEPT ![conn[p]] = "closed"]
            /\ queues' = NoQueues
            /\ pc' = [pc EXCEPT ![p] = "done"]
            /\ ops' = [ops EXCEPT ![p] = Append(@, "close")]
            /\ err' = err
       ELSE /\ connState' = connState
            /\ queues' = queues
            /\ SendRaise(p, "close")
    /\ UNCHANGED << brokerUp, consumers, inflight, arg, callNo, conn, subVars,
                    published, invoked, lost, boundVars >>

\* connection.close()
SendClose(p) ==
    /\ pc[p] = "close"
    /\ closeCalls' = [closeCalls EXCEPT ![conn[p]] = @ + 1]
    /\ IF IsOpen(conn[p])
       THEN /\ connState' = [connState EXCEPT ![conn[p]] = "closed"]
            /\ pc' = [pc EXCEPT ![p] = "done"]
            /\ ops' = [ops EXCEPT ![p] = Append(@, "close")]
            /\ err' = err
       ELSE /\ connState' = connState
            /\ SendRaise(p, "close")
    /\ UNCHANGED << brokerVars, inflight, arg, callNo, conn, subVars, published, invoked,
                    lost, boundVars >>


(* ------------------------------ receive_message ------------------------ *)
\* def receive_message(): connection = get_connection();
\* channel = connection.channel()
ReceiveCall ==
    /\ KernelFree
    /\ calls + faults < MaxEvents
    /\ calls' = calls + 1
    /\ cur' = << >>
    /\ pubsAtStart' = Len(published)
    /\ IF brokerUp
       THEN /\ sconn' = FreshConnection
            /\ connState' = [connState EXCEPT ![FreshConnection] = "open"]
            /\ spc' = "queue_declare"
            /\ serr' = "none"
            /\ sops' = <<"get_connection", "channel">>
       ELSE /\ sconn' = NoConn
            /\ connState' = connState
            /\ spc' = "failed"
            /\ serr' = "AMQPConnectionError"
            /\ sops' = <<"get_connection">>
    /\ UNCHANGED << brokerVars, inflight, pubVars, published, invoked, lost,
                    closeCalls, sends, faults >>

\* an operation on a connection that is no longer open raises; receive_message
\* has no except and no finally either
ReceiveRaise(op) ==
    /\ spc' = "failed"
    /\ serr' = "StreamLostError"
    /\ sops' = Append(sops, op)

\* channel.queue_declare(queue='hello')
ReceiveQueueDeclare ==
    /\ spc = "queue_declare"
    /\ IF IsOpen(sconn)
       THEN /\ queues' = QueueDeclare(queues, "hello")
            /\ spc' = "basic_consume"
            /\ sops' = Append(sops, "queue_declare")
            /\ serr' = serr
       ELSE /\ queues' = queues
            /\ ReceiveRaise("queue_declare")
    /\ UNCHANGED << brokerUp, consumers, connState, inflight, pubVars, sconn, cur, pubsAtStart,
                    published, invoked, lost, closeCalls, boundVars >>

\* channel.basic_consume(queue='hello', on_message_callback=callback, auto_ack=True)
\* print(' [*] Waiting for messages. ...'); channel.start_consuming() is entered
ReceiveBasicConsume ==
    /\ spc = "basic_consume"
    /\ IF IsOpen(sconn)
       THEN /\ consumers' = consumers \cup {sconn}
            /\ spc' = "waiting"
            /\ sops' = sops \o <<"basic_consume", "print", "start_consuming">>
            /\ serr' = serr
       ELSE /\ consumers' = consumers
            /\ ReceiveRaise("basic_consume")
    /\ UNCHANGED << brokerUp, queues, connState, inflight, pubVars, sconn, cur, pubsAtStart,
                    published, invoked, lost, closeCalls, boundVars >>

\* faulty variant: the broker keeps the message it pushed, as if it waited for
\* an acknowledgment
DeliverKeep(c) ==
    /\ brokerUp
    /\ c \in consumers
    /\ Backlog("hello") # << >>
    /\ inflight' = [inflight EXCEPT ![c] = Append(@, Head(queues["hello"]))]
    /\ UNCHANGED << brokerVars, connState, pubVars, subVars, published, invoked,
                    lost, closeCalls, boundVars >>
\* auto_ack=True: the broker pushes the head of the backlog to a registered
\* consumer and forgets it at once; it waits for no acknowledgment.
Deliver(c) ==
    /\ brokerUp
    /\ c \in consumers
    /\ Backlog("hello") # << >>
    /\ inflight' = [inflight EXCEPT ![c] = Append(@, Head(queues["hello"]))]
    /\ queues' = [queues EXCEPT !["hello"] = Tail(@)]
    /\ UNCHANGED << brokerUp, consumers, connState, pubVars, subVars, published,
                    invoked, lost, closeCalls, boundVars >>

\* faulty variant: start_consuming takes the pushed message and goes back to
\* waiting without calling the callback
DispatchDrop ==
    /\ spc = "waiting"
    /\ inflight[sconn] # << >>
    /\ inflight' = [inflight EXCEPT ![sconn] = Tail(@)]
    /\ UNCHANGED << brokerVars, connState, pubVars, subVars, published, invoked, lost,
                    closeCalls, boundVars >>

\* start_consuming: the next pushed message is handed to callback(ch, method,
\* properties, body)
Dispatch ==
    /\ spc = "waiting"
    /\ inflight[sconn] # << >>
    /\ cur' = Head(inflight[sconn])
    /\ inflight' = [inflight EXCEPT ![sconn] = Tail(@)]
    /\ invoked' = Append(invoked, Head(inflight[sconn]))
    /\ spc' = "dispatching"
    /\ UNCHANGED << brokerVars, connState, pubVars, sconn, serr, sops, pubsAtStart,
                    published, lost,
                    closeCalls, boundVars >>

\* faulty variant: start_consuming returns after the first callback
CallbackReturnExit ==
    /\ spc = "dispatching"
    /\ spc' = "returned"
    /\ cur' = << >>
    /\ UNCHANGED << brokerVars, connState, inflight, pubVars, sconn, serr, sops, pubsAtStart,
                    published, invoked, lost, closeCalls, boundVars >>
\* print(f" [x] Received {body}") done, the callback returns into start_consuming
CallbackReturn ==
    /\ spc = "dispatching"
    /\ spc' = "waiting"
    /\ cur' = << >>
    /\ UNCHANGED << brokerVars, connState, inflight, pubVars, sconn, serr, sops, pubsAtStart,
                    published, invoked, lost, closeCalls, boundVars >>

\* start_consuming finds its connection gone and raises out of receive_message
ConsumingRaise ==
    /\ spc = "waiting"
    /\ ~IsOpen(sconn)
    /\ ReceiveRaise("start_consuming")
    /\ UNCHANGED << brokerVars, connState, inflight, pubVars, sconn, cur, pubsAtStart,
                    published, invoked, lost, closeCalls, boundVars >>

\* "To exit press Interrupt": KeyboardInterrupt raised inside start_consuming,
\* in the wait or in the callback; nothing in receive_message catches it and
\* nothing closes the connection
Interrupt ==
    /\ spc \in {"waiting", "dispatching"}
    /\ spc' = "interrupted"
    /\ serr' = "KeyboardInterrupt"
    /\ cur' = << >>
    /\ UNCHANGED << brokerVars, connState, inflight, pubVars, sconn, sops, pubsAtStart,
                    published, invoked, lost, closeCalls, boundVars >>

(* ------------------------------ environment ---------------------------- *)
\* !docker run -d --name rabbitmq-server ... rabbitmq:3-management
DockerRun ==
    /\ ~brokerUp
    /\ brokerUp' = TRUE
    /\ UNCHANGED << queues, consumers, connState, inflight, pubVars, subVars,
                    published, invoked, lost, closeCalls, boundVars >>

\* !docker stop rabbitmq-server; !docker rm rabbitmq-server: the broker and
\* everything it holds is gone, every connection to it is cut
DockerStop ==
    /\ brokerUp
    /\ calls + faults < MaxEvents
    /\ faults' = faults + 1
    /\ brokerUp' = FALSE
    /\ queues' = NoQueues
    /\ consumers' = {}
    /\ connState' = [c \in ConnIds |->
                       IF connState[c] = "open" THEN "dropped" ELSE connState[c]]
    /\ lost' = lost \cup SeqsOf(Backlog("hello"))
    /\ UNCHANGED << inflight, pubVars, subVars, published, invoked, closeCalls,
                    calls, sends >>

\* faulty variant: the broker puts what it had pushed to the cut connection
\* back into the backlog, as it would for unacknowledged messages
NetworkDropRequeue(c) ==
    /\ connState[c] = "open"
    /\ calls + faults < MaxEvents
    /\ faults' = faults + 1
    /\ connState' = [connState EXCEPT ![c] = "dropped"]
    /\ consumers' = consumers \ {c}
    /\ queues' = IF "hello" \in DOMAIN queues
                 THEN [queues EXCEPT !["hello"] = inflight[c] \o @]
                 ELSE queues
    /\ UNCHANGED << brokerUp, inflight, pubVars, subVars, published,
                    invoked, lost, closeCalls, calls, sends >>

\* the network (or the death of the owning process) cuts one connection; the
\* broker drops the consumer registered on it
NetworkDrop(c) ==
    /\ connState[c] = "open"
    /\ calls + faults < MaxEvents
    /\ faults' = faults + 1
    /\ connState' = [connState EXCEPT ![c] = "dropped"]
    /\ consumers' = consumers \ {c}
    /\ UNCHANGED << brokerUp, queues, inflight, pubVars, subVars, published,
                    invoked, lost, closeCalls, calls, sends >>

(* ------------------------------ specification -------------------------- *)
Next ==
    \/ \E p \in Pubs : SendCall(p, PayloadAt(sends + 1))
    \/ \E p \in Pubs : SendQueueDeclare(p)
    \/ \E p \in Pubs : SendBasicPublish(p)
    \/ \E p \in Pubs : SendClose(p)
    \/ ReceiveCall
    \/ ReceiveQueueDeclare
    \/ ReceiveBasicConsume
    \/ \E c \in ConnIds : Deliver(c)
    \/ Dispatch
    \/ CallbackReturn
    \/ ConsumingRaise
    \/ Interrupt
    \/ DockerRun
    \/ DockerStop
    \/ \E c \in ConnIds : NetworkDrop(c)

Spec == Init /\ [][Next]_vars


\* The notebook alone, run cell by cell, with send_message called on any
\* payload, on a broker that stays up once started: the publisher and the
\* subscriber of the tutorial's first pass.
NextPayloads ==
    \/ \E message \in Payloads : SendCall("notebook", message)
    \/ SendQueueDeclare("notebook")
    \/ SendBasicPublish("notebook")
    \/ SendClose("notebook")
    \/ ReceiveCall
    \/ ReceiveQueueDeclare
    \/ ReceiveBasicConsume
    \/ \E c \in ConnIds : Deliver(c)
    \/ Dispatch
    \/ CallbackReturn
    \/ Interrupt
    \/ DockerRun

SpecPayloads == Init /\ [][NextPayloads]_vars


\* The processes keep running once started: a publisher inside send_message
\* and the subscriber inside receive_message take their next step, and a broker
\* that has a consumer for a backlog pushes it. Calls, interrupts and faults
\* come from outside and are under no fairness.
Fairness ==
    /\ \A p \in Pubs : WF_vars(SendQueueDeclare(p) \/ SendBasicPublish(p) \/ SendClose(p))
    /\ WF_vars(ReceiveQueueDeclare \/ ReceiveBasicConsume)
    /\ WF_vars(Dispatch)
    /\ WF_vars(CallbackReturn)
    /\ WF_vars(ConsumingRaise)
    /\ WF_vars(\E c \in ConnIds : Deliver(c))

FairSpec == Init /\ [][Next]_vars /\ Fairness

(* ------------------------------ properties ----------------------------- *)
\* the argument send_message was called with for the message numbered k
ArgOf(k) == published[k].arg

\* what the callback must be handed for each payload, octet by octet
ExpectedBody(message) ==
    CASE message = Str(<<72, 105>>) -> Bytes(<<72, 105>>)
      [] message = Str(<<233, 0>>)  -> Bytes(<<195, 169, 0>>)
      [] message = Bytes(<<0, 72>>) -> Bytes(<<0, 72>>)
      [] message = Str(<< >>)       -> Bytes(<< >>)
      [] message = Bytes(<< >>)     -> Bytes(<< >>)

\* the subscriber waits on an open connection and nothing is left anywhere:
\* no backlog, nothing pushed and not yet dispatched, nothing discarded
Drained ==
    /\ spc = "waiting"
    /\ IsOpen(sconn)
    /\ Backlog("hello") = << >>
    /\ \A c \in ConnIds : inflight[c] = << >>
    /\ lost = {}

InvokedOnce == \A i, j \in 1 .. Len(invoked) : i < j => invoked[i].seq # invoked[j].seq
AllInvoked == \A k \in 1 .. Len(published) : \E i \in 1 .. Len(invoked) : invoked[i].seq = k

\* C1 as stated: the callback is invoked exactly once per published message,
\* and the body it is handed equals the argument P of send_message.
C1_BodyEqualsArgument ==
    /\ InvokedOnce
    /\ Drained => AllInvoked
    /\ \A i \in 1 .. Len(invoked) : invoked[i].body = ArgOf(invoked[i].seq)

\* C1 (amended): for every payload P, send_message(P) followed by
\* receive_message with nothing discarded in between invokes the callback
\* exactly once for the message, and the body it is handed is P when P is
\* bytes and the UTF-8 encoding of P when P is a str.
C1_ExactlyOnceEncodedBody ==
    /\ InvokedOnce
    /\ Drained => AllInvoked
    /\ \A i \in 1 .. Len(invoked) : invoked[i].body = ExpectedBody(ArgOf(invoked[i].seq))

\* C1 witness: the non-ASCII str and the empty str were both sent, and both
\* have been handed to the callback, with nothing left over.
C1_Witness ==
    /\ Drained
    /\ \E i, j \in 1 .. Len(invoked) :
          /\ ArgOf(invoked[i].seq) = Str(<<233, 0>>)
          /\ invoked[i].body = Bytes(<<195, 169, 0>>)
          /\ ArgOf(invoked[j].seq) = Str(<< >>)


BacklogSeqs == SeqsOf(Backlog("hello"))
InvokedSeqs == SeqsOf(invoked)

\* no consumer was ever registered: none is now, and no fault has removed one
NeverConsumed == consumers = {} /\ faults = 0

\* C2: a message published while no subscriber exists stays in the backlog of
\* 'hello' as long as the broker is up and no consumer is registered, and once
\* a receive_message declares 'hello' and consumes, every message published
\* before it was called reaches the callback (unless the run is cut short from
\* outside: a fault or an interrupt).
C2_BacklogKeptThenDelivered ==
    /\ [][\A k \in BacklogSeqs : (consumers = {} /\ brokerUp') => k \in BacklogSeqs']_vars
    /\ (NeverConsumed /\ spc = "queue_declare" /\ 1 .. pubsAtStart \subseteq BacklogSeqs)
          ~> (1 .. pubsAtStart \subseteq InvokedSeqs \/ faults > 0 \/ spc = "interrupted")

\* C2 witness: a message that was published before receive_message was called,
\* by a publisher that has closed its connection, has reached the callback of
\* the first consumer ever registered.
C2_Witness ==
    /\ pubsAtStart >= 1
    /\ 1 \in InvokedSeqs
    /\ faults = 0
    /\ consumers = {sconn}
    /\ connState[1] = "closed"


\* C3: messages sent by one publisher in successive send_message calls reach
\* the callback in the order of the calls, and when nothing is left over every
\* published message has reached it: three messages published before the
\* consumer starts arrive as m1, m2, m3.
C3_PublishOrderKept ==
    /\ \A i, j \in 1 .. Len(invoked) :
          (i < j /\ published[invoked[i].seq].by = published[invoked[j].seq].by)
             => published[invoked[i].seq].call < published[invoked[j].seq].call
    /\ \A i, j \in 1 .. Len(invoked) : i < j => invoked[i].seq < invoked[j].seq
    /\ Drained => Len(invoked) = Len(published)

\* C3 witness: three messages were published by the notebook before
\* receive_message was called, and the callback has been handed the three, with
\* three different bodies.
C3_Witness ==
    /\ pubsAtStart = 3
    /\ Len(invoked) = 3
    /\ \A k \in 1 .. 3 : published[k].by = "notebook" /\ published[k].call = k
    /\ Cardinality({ invoked[i].body : i \in 1 .. 3 }) = 3

\* a step in which a queue_declare returned without error
DeclareStep ==
    \/ \E p \in Pubs : pc[p] = "queue_declare" /\ pc'[p] = "basic_publish"
    \/ spc = "queue_declare" /\ spc' = "basic_consume"

\* a step in which queue_declare is executed on an open connection
DeclareOnOpen ==
    \/ \E p \in Pubs : pc[p] = "queue_declare" /\ pc'[p] # "queue_declare" /\ IsOpen(conn[p])
    \/ spc = "queue_declare" /\ spc' # "queue_declare" /\ IsOpen(sconn)

\* C4: queue_declare of 'hello' is idempotent: the first one creates the queue,
\* empty; a later one, by a publisher or by the subscriber, raises nothing,
\* leaves the broker with the one queue 'hello' and leaves its backlog as it was.
C4_DeclareIdempotent ==
    [][ /\ DeclareOnOpen => DeclareStep
        /\ DeclareStep =>
              /\ DOMAIN queues' = {"hello"}
              /\ "hello" \in DOMAIN queues => queues' = queues
              /\ "hello" \notin DOMAIN queues => queues'["hello"] = << >> ]_vars

\* C4 witness: the subscriber has declared 'hello' after a publisher had
\* declared it and published to it: the backlog is still there.
C4_Witness ==
    /\ spc = "basic_consume"
    /\ Len(Backlog("hello")) >= 1

\* C5: with the broker unreachable, send_message fails in get_connection with a
\* connection error, and the broker is left as it was: no queue, no message,
\* and neither queue_declare nor basic_publish is executed.
C5_UnreachableFailsCleanly ==
    /\ [](\A p \in Pubs : err[p] = "AMQPConnectionError" =>
             /\ pc[p] = "failed"
             /\ ops[p] = <<"get_connection">>
             /\ conn[p] = NoConn)
    /\ [][\A p \in Pubs :
             (~brokerUp /\ pc[p] \in {"idle", "done", "failed"} /\ callNo'[p] # callNo[p])
                => /\ err'[p] = "AMQPConnectionError"
                   /\ pc'[p] = "failed"
                   /\ queues' = queues /\ consumers' = consumers /\ brokerUp' = brokerUp
                   /\ published' = published /\ connState' = connState]_vars
    /\ [](~brokerUp => queues = NoQueues /\ \A c \in ConnIds : connState[c] # "open")

\* C5 witness: a send_message call has failed with the connection error.
C5_Witness ==
    \E p \in Pubs : pc[p] = "failed" /\ err[p] = "AMQPConnectionError" /\ callNo[p] >= 1

\* C6 as stated: when send_message has finished, by returning or by raising,
\* the connection it opened has been closed by exactly one close() call.
C6_ClosedExactlyOnce ==
    \A p \in Pubs :
        (pc[p] \in {"done", "failed"} /\ conn[p] # NoConn)
           => closeCalls[conn[p]] = 1

\* the publisher p has just had basic_publish return
PublishStep(p) == pc[p] = "basic_publish" /\ pc'[p] = "close"

\* the messages published by the current call of p
PublishedByCall(p) ==
    { k \in 1 .. Len(published) : published[k].by = p /\ published[k].call = callNo[p] }

\* C7: a send_message that succeeds adds exactly one message to the backlog of
\* 'hello', at its tail, and changes nothing else on the broker: the messages
\* already there keep their places, no queue appears, no consumer changes.
C7_OneMessageAppended ==
    /\ [](\A p \in Pubs : pc[p] = "done" => Cardinality(PublishedByCall(p)) = 1)
    /\ [][\A p \in Pubs : PublishStep(p) =>
             /\ DOMAIN queues' = DOMAIN queues
             /\ Len(queues'["hello"]) = Len(queues["hello"]) + 1
             /\ SubSeq(queues'["hello"], 1, Len(queues["hello"])) = queues["hello"]
             /\ queues'["hello"][Len(queues'["hello"])].body = ExpectedBody(arg[p])
             /\ consumers' = consumers
             /\ brokerUp' = brokerUp]_vars

\* C7 witness: a send_message has returned and its message sits in the backlog
\* behind an earlier one.
C7_Witness ==
    \E p \in Pubs :
        /\ pc[p] = "done"
        /\ Len(Backlog("hello")) >= 2
        /\ Backlog("hello")[Len(Backlog("hello"))].seq \in PublishedByCall(p)

\* how many copies of message k there are: in the backlog, pushed to a
\* connection and not yet dispatched, or handed to the callback
CountIn(s, k) == Cardinality({ i \in 1 .. Len(s) : s[i].seq = k })
CountInflight(k) ==
    Cardinality({ ci \in ConnIds \X (1 .. MaxEvents) :
                    ci[2] <= Len(inflight[ci[1]]) /\ inflight[ci[1]][ci[2]].seq = k })
Copies(k) == CountIn(Backlog("hello"), k) + CountInflight(k) + CountIn(invoked, k)


\* C8: with auto_ack=True a message leaves the backlog the moment it is pushed
\* to a consumer and never comes back: there is never more than one copy of it,
\* a message that has left the backlog never re-enters it, a message pushed to
\* one connection never turns up on another, and so the callback is never
\* handed a message twice, whatever crashes after the delivery.
C8_AtMostOnce ==
    /\ [](\A k \in 1 .. Len(published) : Copies(k) <= 1)
    /\ [][\A k \in 1 .. Len(published) : k \notin BacklogSeqs => k \notin BacklogSeqs']_vars
    /\ [][\A c \in ConnIds : \A k \in SeqsOf(inflight[c]) :
             \/ k \in SeqsOf(inflight'[c])
             \/ c = sconn /\ k \in InvokedSeqs' /\ k \notin InvokedSeqs]_vars

\* C8 witness: a message was pushed to a consumer that was then interrupted
\* before its callback ran; a consumer started later is waiting on a new
\* connection, and the message is neither in the backlog nor handed to it.
C8_Witness ==
    \E k \in 1 .. Len(published) : \E c \in ConnIds :
        /\ c # sconn
        /\ k \in SeqsOf(inflight[c])
        /\ k \notin BacklogSeqs
        /\ k \notin InvokedSeqs
        /\ spc = "waiting"
        /\ sconn \in consumers

Consuming == {"waiting", "dispatching"}

\* C9 as stated: inside start_consuming the subscriber only alternates between
\* waiting and dispatching, and it leaves only by an external interruption.
C9_OnlyInterruptEnds ==
    [][(spc \in Consuming /\ spc' \notin Consuming) => spc' = "interrupted"]_vars

\* C9 (amended): inside start_consuming the subscriber only alternates between
\* waiting and dispatching a callback; it leaves only by an external
\* interruption or, while waiting, by start_consuming raising because its
\* connection is gone (broker stopped, network drop). An empty queue, a
\* completed callback or any number of deliveries never end it.
C9_OnlyOutsideEnds ==
    [][ /\ spc = "waiting" =>
             \/ spc' \in {"waiting", "dispatching", "interrupted"}
             \/ spc' = "failed" /\ serr' = "StreamLostError" /\ ~IsOpen(sconn)
        /\ spc = "dispatching" => spc' \in {"dispatching", "waiting", "interrupted"} ]_vars

\* C9 witness: two callbacks have completed, the queue is empty, nothing is
\* pending, and the subscriber is waiting again.
C9_Witness ==
    /\ spc = "waiting"
    /\ Len(invoked) >= 2
    /\ Backlog("hello") = << >>
    /\ inflight[sconn] = << >>
    /\ IsOpen(sconn)

CountOp(s, o) == Cardinality({ i \in 1 .. Len(s) : s[i] = o })

\* C10: a connection lost during send_message ends the call with the error and
\* nothing is retried: a call connects at most once and publishes at most once,
\* its message is enqueued at most once, a failed call stays failed until the
\* caller calls again, and ' [x] Sent' is printed only after basic_publish has
\* returned, with the message enqueued.
C10_SurfacedNoRetry ==
    /\ [](\A p \in Pubs :
             /\ CountOp(ops[p], "get_connection") <= 1
             /\ CountOp(ops[p], "basic_publish") <= 1
             /\ Cardinality(PublishedByCall(p)) <= 1
             /\ pc[p] = "failed" <=> err[p] # "none"
             /\ CountOp(ops[p], "print") = Cardinality(PublishedByCall(p))
             /\ (pc[p] = "failed" /\ ops[p][Len(ops[p])] \in {"queue_declare", "basic_publish"})
                   => err[p] = "StreamLostError" /\ PublishedByCall(p) = {})
    /\ [][\A p \in Pubs : pc[p] = "failed" => (pc'[p] = "failed" \/ callNo'[p] # callNo[p])]_vars

\* C10 witness: a send_message call has failed at basic_publish on a lost
\* connection.
C10_Witness ==
    \E p \in Pubs :
        /\ pc[p] = "failed"
        /\ err[p] = "StreamLostError"
        /\ ops[p] = <<"get_connection", "channel", "queue_declare", "basic_publish">>


\* no consumer other than the running subscriber's was ever registered, and no
\* fault has happened
OnlyConsumer == consumers = {sconn} /\ faults = 0

\* the messages published since receive_message was called
PublishedSinceStart == (pubsAtStart + 1) .. Len(published)

PublishOnOpen(p) == pc[p] = "basic_publish" /\ pc'[p] # "basic_publish" /\ IsOpen(conn[p])

\* a step in which basic_consume is executed on an open connection
ConsumeOnOpen == spc = "basic_consume" /\ spc' # "basic_consume" /\ IsOpen(sconn)

\* C12: starting from a broker with no queues, and whichever role starts first,
\* 'hello' exists whenever basic_publish or basic_consume is executed: the
\* role has declared it on the same connection, so the publish enqueues its
\* message (none is dropped as unroutable) and the consume registers.
C12_QueueExistsWhenUsed ==
    /\ [](\A p \in Pubs :
             (pc[p] \in {"basic_publish", "close"} /\ IsOpen(conn[p])) => "hello" \in DOMAIN queues)
    /\ []((spc \in {"basic_consume", "waiting", "dispatching"} /\ IsOpen(sconn))
             => "hello" \in DOMAIN queues)
    /\ [][\A p \in Pubs : PublishOnOpen(p) =>
             /\ "hello" \in DOMAIN queues
             /\ Len(published') = Len(published) + 1
             /\ published'[Len(published')].seq \in SeqsOf(queues'["hello"])
             /\ pc'[p] = "close"]_vars
    /\ [][ConsumeOnOpen =>
             /\ "hello" \in DOMAIN queues
             /\ sconn \in consumers'
             /\ spc' = "waiting"]_vars

\* C12 witness: the subscriber started first, on a broker without queues, and
\* created 'hello'; a publisher that started afterwards has published into it.
C12_Witness ==
    /\ spc \in Consuming
    /\ pubsAtStart = 0
    /\ sconn = 1
    /\ faults = 0
    /\ Len(published) >= 1


\* the flows that hold connection c
HeldBy(c) ==
    { p \in Pubs : conn[p] = c } \cup (IF sconn = c THEN {"receive_message"} ELSE {})

\* a step in which the publisher p executes connection.close()
CloseStep(p) == pc[p] = "close" /\ pc'[p] # "close"

\* C13: every get_connection call yields a connection no flow has used before,
\* so no two flows ever hold the same connection, and a publisher closing its
\* connection at the end of send_message leaves the subscriber's connection,
\* its registration and what was pushed to it as they were: the subscriber
\* goes on receiving.
C13_ConnectionsNotShared ==
    /\ [](\A c \in ConnIds : Cardinality(HeldBy(c)) <= 1)
    /\ [][\A p \in Pubs :
             (callNo'[p] # callNo[p] /\ conn'[p] # NoConn) => connState[conn'[p]] = "unused"]_vars
    /\ [][(sconn' # sconn /\ sconn' # NoConn) => connState[sconn'] = "unused"]_vars
    /\ [][\A p \in Pubs : CloseStep(p) =>
             /\ \A c \in ConnIds : c # conn[p] => connState'[c] = connState[c]
             /\ consumers' = consumers
             /\ inflight' = inflight
             /\ spc' = spc /\ sconn' = sconn /\ serr' = serr]_vars

\* C13 witness: with the subscriber running, send.py ran twice, each time on a
\* connection of its own that it closed; the subscriber's connection is still
\* open and its callback has been handed both messages, the second one after
\* the first publisher connection was closed.
C13_Witness ==
    /\ spc = "waiting"
    /\ IsOpen(sconn)
    /\ sconn \in consumers
    /\ Len(invoked) = 2
    /\ \A k \in 1 .. 2 : published[k].by = "send.py"
    /\ \E c, d \in ConnIds :
          c > sconn /\ d > c /\ connState[c] = "closed" /\ connState[d] = "closed"


\* C14 as stated: once receive_message has been ended by an interruption of
\* start_consuming, the connection it opened is no longer open on the broker.
C14_InterruptedConnectionClosed ==
    spc = "interrupted" => connState[sconn] # "open"

\* how many messages have been pushed to connections and not yet dispatched
TotalInflight ==
    Cardinality({ ci \in ConnIds \X (1 .. MaxEvents) : ci[2] <= Len(inflight[ci[1]]) })

\* C15 as stated: as long as no broker stop has discarded a backlog, the number
\* of messages published equals the number in the backlog plus the number
\* handed to the callback.
C15_PublishedIsBacklogPlusInvoked ==
    lost = {} => Len(published) = Len(Backlog("hello")) + Len(invoked)

\* C15 (amended): as long as no broker stop has discarded a backlog, the number
\* of messages published equals the number in the backlog, plus the number
\* pushed to a consumer's connection and not yet handed to its callback, plus
\* the number handed to the callback; every published message is in exactly
\* one of these places, and it leaves the backlog only by being pushed to a
\* consumer.
C15_Conservation ==
    /\ [](lost = {} =>
            /\ Len(published) = Len(Backlog("hello")) + TotalInflight + Len(invoked)
            /\ \A k \in 1 .. Len(published) : Copies(k) = 1)
    /\ [][\A k \in BacklogSeqs :
             \/ k \in BacklogSeqs'
             \/ \E c \in ConnIds : k \in SeqsOf(inflight'[c]) /\ k \notin SeqsOf(inflight[c])
             \/ ~brokerUp']_vars

\* C15 witness: one message has been handed to the callback; then the notebook
\* and send.py ran send_message at the same time, each on its own connection,
\* and both have published: one message is pushed and pending, one is in the
\* backlog.
C15_Witness ==
    /\ lost = {}
    /\ pc["notebook"] = "close" /\ pc["send.py"] = "close"
    /\ IsOpen(conn["notebook"]) /\ IsOpen(conn["send.py"])
    /\ conn["notebook"] # conn["send.py"]
    /\ Len(invoked) = 1
    /\ TotalInflight = 1
    /\ Len(Backlog("hello")) = 1

====
